---- MODULE Spec2Model ----
(***************************************************************************)
(* State-machine model of the media playback control surface               *)
(* (src/src/modules/shared/components/VideoPlayer.tsx).                     *)
(*                                                                         *)
(* Units.  A volume level is an integer number of hundredths (0.7 is 70,   *)
(* 0.05 is 5, 1 is 100), so the arithmetic of the model is exact decimal   *)
(* arithmetic and not IEEE-754 binary arithmetic.  The hide timer counts   *)
(* milliseconds, media positions count seconds.                            *)
(*                                                                         *)
(* One action is one event handler of the component together with the      *)
(* re-render it causes and the effects (useEffect) that re-render runs.    *)
(* Signals of the media element (volumechange, timeupdate) are queued by   *)
(* the element and delivered later by actions of their own.                *)
(*                                                                         *)
(* The application is mounted with createRoot (src/unnamed/part_018), so   *)
(* state updates made in a handler are rendered when the handler returns   *)
(* for discrete events (click, mousedown, mouseup, keydown) but in a later *)
(* task for a document mousemove.  A volumechange signal queued by that    *)
(* handler may therefore be handled before or after the handler's          *)
(* re-render; the model has an action for each order.                      *)
(***************************************************************************)
EXTENDS Integers, FiniteSets, Sequences, TLC

\* ------------------------------------------------------------ constants
MaxLevel == 100
InitVolume == 70
VolumeStep == 5
UnmuteDefault == 50
HideDelayMs == 2000
SeekSeconds == 10
ElementDefaultVolume == 100
TrackLeft == 20
TrackWidth == 100
NaN == -1
NoVideo == 0
NoTimer == 0
Off == "off"
Languages == {"es", "en"}
AutoLine == 0
LineAboveControls == -5
LineInEffect == -4
LineLow == -2
GenericFile == 0

\* ------------------------------------------------------------ bounds
TicksPerDelay == 4
NumVideos == 2
PlayStep == 5
MaxRun == 4
MaxOpenTimers == 2

TickMs == HideDelayMs \div TicksPerDelay
Videos == 1..NumVideos
DurationOf(v) == 8 + 10 * v
PointerXs == {TrackLeft - 30, TrackLeft, TrackLeft + 35,
              TrackLeft + TrackWidth + 40}
ProgressPcts == {0, 40, 100}
Keys == {" ", "Escape", "ArrowLeft", "ArrowRight", "ArrowUp", "ArrowDown",
         "f", "m", "x"}

\* ------------------------------------------------------------ state
VARIABLES
  isOpen, video,                 \* props given by the host screen
  isPlaying, currentTime, duration, volume, isMuted, isLoading,
  isDraggingVolume, showControls,   \* useState cells
  hideTimerRef,                  \* useRef cell
  elVolume, elMuted, elPaused, elTime, elDuration,  \* the <video> element
  vcPending, tuPending,          \* queued volumechange / timeupdate signals
  timers,                        \* pending window.setTimeout callbacks
  kb,                            \* the window keydown listener and the
                                 \* render values its closure captured
  subtitleLanguage, showSubtitleMenu,   \* useState cells
  textTracks,                    \* videoElement.textTracks
  dragListeners,                 \* document mousemove/mouseup listeners
  focus,                         \* the control that has keyboard focus
  elStalled,                     \* the element waits for data
  fullscreen,                    \* document.fullscreenElement is not null
  fsPending,                     \* the fullscreen request not yet answered
  isOverlayOpen,                 \* useState cell of the host screen
  openTimers,                    \* pending open timeouts of the host screen
  run, idle, hides, scen         \* history (observation only)

pvars == <<isOpen, video, isPlaying, currentTime, duration, volume, isMuted,
           isLoading, isDraggingVolume, showControls, hideTimerRef,
           elVolume, elMuted, elPaused, elTime, elDuration,
           vcPending, tuPending, timers, kb,
           subtitleLanguage, showSubtitleMenu, textTracks, dragListeners,
           focus, elStalled, fullscreen, fsPending, isOverlayOpen,
           openTimers>>
hvars == <<run, idle, hides, scen>>
vars == <<isOpen, video, isPlaying, currentTime, duration, volume, isMuted,
          isLoading, isDraggingVolume, showControls, hideTimerRef,
          elVolume, elMuted, elPaused, elTime, elDuration,
          vcPending, tuPending, timers, kb,
          subtitleLanguage, showSubtitleMenu, textTracks, dragListeners,
          focus, elStalled, fullscreen, fsPending, isOverlayOpen,
          openTimers, run, idle, hides, scen>>

\* The program state as one record, so that handlers compose as functions.
Cur ==
  [isOpen |-> isOpen, video |-> video, isPlaying |-> isPlaying,
   currentTime |-> currentTime, duration |-> duration, volume |-> volume,
   isMuted |-> isMuted, isLoading |-> isLoading,
   isDraggingVolume |-> isDraggingVolume, showControls |-> showControls,
   hideTimerRef |-> hideTimerRef, elVolume |-> elVolume, elMuted |-> elMuted,
   elPaused |-> elPaused, elTime |-> elTime, elDuration |-> elDuration,
   vcPending |-> vcPending, tuPending |-> tuPending, timers |-> timers,
   kb |-> kb, subtitleLanguage |-> subtitleLanguage,
   showSubtitleMenu |-> showSubtitleMenu, textTracks |-> textTracks,
   dragListeners |-> dragListeners, focus |-> focus,
   elStalled |-> elStalled, fullscreen |-> fullscreen,
   fsPending |-> fsPending, isOverlayOpen |-> isOverlayOpen,
   openTimers |-> openTimers]

Commit(s) ==
  /\ isOpen' = s.isOpen /\ video' = s.video /\ isPlaying' = s.isPlaying
  /\ currentTime' = s.currentTime /\ duration' = s.duration
  /\ volume' = s.volume /\ isMuted' = s.isMuted /\ isLoading' = s.isLoading
  /\ isDraggingVolume' = s.isDraggingVolume /\ showControls' = s.showControls
  /\ hideTimerRef' = s.hideTimerRef /\ elVolume' = s.elVolume
  /\ elMuted' = s.elMuted /\ elPaused' = s.elPaused /\ elTime' = s.elTime
  /\ elDuration' = s.elDuration /\ vcPending' = s.vcPending
  /\ tuPending' = s.tuPending /\ timers' = s.timers /\ kb' = s.kb
  /\ subtitleLanguage' = s.subtitleLanguage
  /\ showSubtitleMenu' = s.showSubtitleMenu /\ textTracks' = s.textTracks
  /\ dragListeners' = s.dragListeners /\ focus' = s.focus
  /\ elStalled' = s.elStalled
  /\ fullscreen' = s.fullscreen /\ fsPending' = s.fsPending
  /\ isOverlayOpen' = s.isOverlayOpen /\ openTimers' = s.openTimers

\* The keydown listener when it is not registered.
KbDetached == [attached |-> FALSE, isMuted |-> FALSE, volumeIsZero |-> FALSE]

\* videoRef.current / volumeTrackRef.current are set exactly while the
\* component renders its markup.
HasVideoRef(s) == s.isOpen /\ s.video # NoVideo

\* The element queues a volumechange signal whenever volume or muted changes.
SetElVolume(s, v) ==
  [s EXCEPT !.elVolume = v, !.vcPending = s.vcPending \/ v # s.elVolume]
SetElMuted(s, m) ==
  [s EXCEPT !.elMuted = m, !.vcPending = s.vcPending \/ m # s.elMuted]

\* ------------------------------------------------------------ volume
clamp01_noUpper(x) == IF x < 0 THEN 0 ELSE x
\* Math.max(0, Math.min(1, x))
clamp01(x) == IF x < 0 THEN 0 ELSE IF x > MaxLevel THEN MaxLevel ELSE x

\* (e.clientX - rect.left) / rect.width, clamped
trackPos(clientX) == clamp01(((clientX - TrackLeft) * MaxLevel) \div TrackWidth)

dragSet_noMute(s, clientX) ==
  LET pos == trackPos(clientX)
  IN  [SetElVolume(s, pos) EXCEPT !.volume = pos]
\* video.volume = pos; setVolume(pos); setIsMuted(pos === 0)
dragSet(s, clientX) ==
  LET pos == trackPos(clientX)
  IN  [SetElVolume(s, pos) EXCEPT !.volume = pos, !.isMuted = (pos = 0)]

\* document 'mousemove' listener of the drag effect
dragMouseMove(s, clientX) ==
  IF ~HasVideoRef(s) THEN s ELSE dragSet(s, clientX)

\* document 'mouseup' listener of the drag effect
handleMouseUp(s) == [s EXCEPT !.isDraggingVolume = FALSE]

\* onMouseDown of the volume track
volumeTrackMouseDown(s, clientX) ==
  LET s1 == [s EXCEPT !.isDraggingVolume = TRUE]
  IN  IF HasVideoRef(s) THEN dragSet(s1, clientX) ELSE s1

adjustVolume(s, delta) ==
  IF ~HasVideoRef(s) THEN s
  ELSE LET next == clamp01(s.elVolume + delta)
           s1 == SetElMuted(SetElVolume(s, next), next = 0)
       IN  [s1 EXCEPT !.volume = next, !.isMuted = (next = 0)]

\* c holds what the closure called reads of the render that created it:
\* isMuted, and of volume only the outcome of its one use, volume === 0.
handleMuteToggle(s, c) ==
  IF ~HasVideoRef(s) THEN s
  ELSE IF c.isMuted
       THEN LET s1 == [SetElMuted(s, FALSE) EXCEPT !.isMuted = FALSE]
            IN  IF c.volumeIsZero
                THEN [SetElVolume(s1, UnmuteDefault)
                        EXCEPT !.volume = UnmuteDefault]
                ELSE s1
       ELSE [SetElMuted(s, TRUE) EXCEPT !.isMuted = TRUE]

\* The values a handler created by the latest render reads.
RenderClosure(s) == [isMuted |-> s.isMuted, volumeIsZero |-> (s.volume = 0)]

onVolumeChange(s) ==
  [s EXCEPT !.volume = s.elVolume, !.isMuted = s.elMuted,
            !.vcPending = FALSE]

\* ------------------------------------------------------------ subtitles
\* A text track of the element: the caption file it loads, its mode, whether
\* its cue list has loaded, the line of its cues, and its cuechange
\* listeners, each the showControls value its closure captured.
NewTrack(src) ==
  [src |-> src, mode |-> "disabled", cues |-> FALSE, line |-> AutoLine,
   listeners |-> <<>>]

\* Videos with a caption file of their own; the others share a generic one.
homepageSubtitleIds == {1}

\* The caption file as <<owner, language>>, or <<>> for null.
getSubtitleSrc(v, lang) ==
  IF v = NoVideo \/ lang = Off THEN <<>>
  ELSE <<IF v \in homepageSubtitleIds THEN v ELSE GenericFile, lang>>

\* cue.line = line for every cue of textTracks[0]
adjustSubtitlePosition(s, line) ==
  IF ~HasVideoRef(s) \/ s.textTracks = <<>> THEN s
  ELSE IF ~s.textTracks[1].cues THEN s
  ELSE [s EXCEPT !.textTracks[1].line = line]

\* handleCueChange as created by a render with showControls = c
handleCueChange(s, c) ==
  adjustSubtitlePosition(s, IF c THEN LineInEffect ELSE LineLow)

\* track.mode = 'hidden' at the end of onLoadedMetadata
hideFirstTrack(s) ==
  IF s.textTracks = <<>> THEN s
  ELSE [s EXCEPT !.textTracks[1].mode = "hidden"]

\* ------------------------------------------------------------ transport
handlePlayPause(s) ==
  IF ~HasVideoRef(s) THEN s
  ELSE IF s.elPaused
       THEN \* video.play(): playback that has ended restarts from 0
            LET atEnd == s.elDuration # NaN /\ s.elTime = s.elDuration
            IN  [s EXCEPT !.elPaused = FALSE, !.isPlaying = TRUE,
                          !.elTime = IF atEnd THEN 0 ELSE @,
                          !.tuPending = @ \/ atEnd]
       ELSE [s EXCEPT !.elPaused = TRUE, !.isPlaying = FALSE]

handleStop(s) ==
  IF ~HasVideoRef(s) THEN s
  ELSE [s EXCEPT !.elPaused = TRUE, !.elTime = 0,
                 !.tuPending = @ \/ s.elDuration # NaN,
                 !.isPlaying = FALSE, !.currentTime = 0]

handleSeek_noUpper(s, seconds) ==
  IF ~HasVideoRef(s) \/ s.elDuration = NaN THEN s
  ELSE LET t == s.elTime + seconds
       IN  [s EXCEPT !.elTime = IF t < 0 THEN 0 ELSE t, !.tuPending = TRUE]
\* Math.max(0, Math.min(video.duration, video.currentTime + seconds)).
\* Before the metadata is known video.duration is NaN, newTime is NaN and
\* the assignment to video.currentTime throws: nothing changes.
handleSeek(s, seconds) ==
  IF ~HasVideoRef(s) \/ s.elDuration = NaN THEN s
  ELSE LET t == s.elTime + seconds
           newTime == IF t > s.elDuration THEN s.elDuration
                      ELSE IF t < 0 THEN 0 ELSE t
       IN  [s EXCEPT !.elTime = newTime, !.tuPending = TRUE]

\* With video.duration NaN the time computed by handleSeek and by
\* handleProgressClick is NaN, and the assignment of a non-finite value to
\* video.currentTime throws a TypeError that no code catches.
seekThrows(s) == HasVideoRef(s) /\ s.elDuration = NaN

\* pct is the click offset along the progress bar in hundredths of its
\* width; a click lands on the bar, so 0 <= pct <= 100.
handleProgressClick(s, pct) ==
  IF ~HasVideoRef(s) \/ s.elDuration = NaN THEN s
  ELSE [s EXCEPT !.elTime = (pct * s.elDuration) \div 100,
                 !.tuPending = TRUE]

\* The element learns the duration d of its source, then the handler runs.
onLoadedMetadata(s, d) ==
  LET s1 == [s EXCEPT !.elDuration = d, !.duration = d, !.isLoading = FALSE]
      s2 == SetElMuted(SetElVolume(s1, s.volume), s.isMuted)
      s3 == adjustSubtitlePosition(s2, IF s.showControls
                                       THEN LineAboveControls ELSE LineLow)
  IN  hideFirstTrack(s3)

onTimeUpdate(s) == [s EXCEPT !.currentTime = s.elTime, !.tuPending = FALSE]

\* Playback reaches the end: the element queues timeupdate, pauses itself
\* (pause signal) and signals ended; the three handlers run in that order.
onEnded(s) ==
  [s EXCEPT !.elPaused = TRUE, !.tuPending = FALSE,
            !.isPlaying = FALSE, !.currentTime = 0]

\* ------------------------------------------------------------ hide timer
clearTimeout(s, id) == [s EXCEPT !.timers = {t \in @ : t.id # id}]

\* window.setTimeout returns an id no pending timer has.
FreshTimerId(s) ==
  CHOOSE i \in 1..(Cardinality(s.timers) + 1) :
    /\ \A t \in s.timers : t.id # i
    /\ \A j \in 1..(i - 1) : \E t \in s.timers : t.id = j

setHideTimeout(s) ==
  LET id == FreshTimerId(s)
  IN  [s EXCEPT !.timers = @ \cup {[id |-> id, left |-> HideDelayMs]},
                !.hideTimerRef = id]

resetHideTimer_noClear(s) == setHideTimeout(s)
resetHideTimer(s) ==
  setHideTimeout(IF s.hideTimerRef # NoTimer
                 THEN clearTimeout(s, s.hideTimerRef) ELSE s)

handleMouseMove_noReset(s) == [s EXCEPT !.showControls = TRUE]
\* onMouseMove of the player and of the video element
handleMouseMove(s) == resetHideTimer([s EXCEPT !.showControls = TRUE])

\* the timeout callback
hideCallback(s, id) ==
  [clearTimeout(s, id) EXCEPT !.showControls = FALSE]

\* ------------------------------------------------------------ fullscreen
handleFullscreen_alwaysEnter(s) ==
  IF ~HasVideoRef(s) THEN s ELSE [s EXCEPT !.fsPending = "enter"]
\* The container is in the document exactly while the player renders its
\* markup.  The request is answered later by the platform.
handleFullscreen(s) ==
  IF ~HasVideoRef(s) THEN s
  ELSE [s EXCEPT !.fsPending = IF s.fullscreen THEN "exit" ELSE "enter"]

\* The promise of the request is fulfilled.
onFullscreenGranted(s) ==
  [s EXCEPT !.fullscreen = (s.fsPending = "enter"), !.fsPending = "none"]

\* The promise is rejected: .catch(err => console.error(...))
onFullscreenDenied(s) == [s EXCEPT !.fsPending = "none"]

\* ------------------------------------------------------------ host
\* handleClosePlayer of the host screens
onClose(s) == [s EXCEPT !.isOpen = FALSE, !.video = NoVideo]

\* handlers of the host screen; its selectedVideo and isPlayerOpen are the
\* video and isOpen the player gets
handleVideoClick(s, v) == [s EXCEPT !.video = v, !.isOverlayOpen = TRUE]

handleCloseOverlay(s) ==
  [s EXCEPT !.isOverlayOpen = FALSE, !.video = NoVideo]

\* setTimeout(() => setIsPlayerOpen(true), 100)
handlePlay(s, v) ==
  [s EXCEPT !.video = v, !.isOverlayOpen = FALSE, !.openTimers = @ + 1]

openTimerCallback(s) == [s EXCEPT !.isOpen = TRUE, !.openTimers = @ - 1]

\* ------------------------------------------------------------ keyboard
handleKeyPress(s, key) ==
  LET s1 == resetHideTimer([s EXCEPT !.showControls = TRUE])
  IN  CASE key = " " -> handlePlayPause(s1)
        [] key = "Escape" -> onClose(s1)
        [] key = "ArrowLeft" -> handleSeek(s1, 0 - SeekSeconds)
        [] key = "ArrowRight" -> handleSeek(s1, SeekSeconds)
        [] key = "ArrowUp" -> adjustVolume(s1, VolumeStep)
        [] key = "ArrowDown" -> adjustVolume(s1, 0 - VolumeStep)
        [] key = "f" -> handleFullscreen(s1)
        [] key = "m" -> handleMuteToggle(s1, s.kb)
        [] OTHER -> s1

\* The controller operation a handler calls, by name.
applyOp(s, op) ==
  CASE op = "seekBack" -> handleSeek(s, 0 - SeekSeconds)
    [] op = "seekForward" -> handleSeek(s, SeekSeconds)
    [] op = "volumeUp" -> adjustVolume(s, VolumeStep)
    [] op = "volumeDown" -> adjustVolume(s, 0 - VolumeStep)
    [] OTHER -> s

RECURSIVE applyOps(_, _)
applyOps(s, ops) ==
  IF ops = <<>> THEN s ELSE applyOps(applyOp(s, Head(ops)), Tail(ops))

\* onKeyDown of the progress bar
progressKeyOps(key) ==
  CASE key = "ArrowLeft" -> <<"seekBack">>
    [] key = "ArrowRight" -> <<"seekForward">>
    [] OTHER -> <<>>

\* onKeyDown of the volume track
volumeTrackKeyOps(key) ==
  CASE key \in {"ArrowLeft", "ArrowDown"} -> <<"volumeDown">>
    [] key \in {"ArrowRight", "ArrowUp"} -> <<"volumeUp">>
    [] OTHER -> <<>>

\* The operations the switch of handleKeyPress calls.
windowKeyOps(key) ==
  CASE key = " " -> <<"togglePlayPause">>
    [] key = "Escape" -> <<"close">>
    [] key = "ArrowLeft" -> <<"seekBack">>
    [] key = "ArrowRight" -> <<"seekForward">>
    [] key = "ArrowUp" -> <<"volumeUp">>
    [] key = "ArrowDown" -> <<"volumeDown">>
    [] key = "f" -> <<"fullscreen">>
    [] key = "m" -> <<"toggleMute">>
    [] OTHER -> <<>>

\* A keydown event bubbles from the focused control, whose onKeyDown runs
\* first, to the window; preventDefault does not stop it.
focusedKeyOps(f, key) ==
  CASE f = "progress" -> progressKeyOps(key)
    [] f = "volume" -> volumeTrackKeyOps(key)
    [] OTHER -> <<>>

focusedKeyDown(s, key) == applyOps(s, focusedKeyOps(s.focus, key))

\* ------------------------------------------------------------ render
\* The <video> element after the commit of a render: created on mount,
\* gone on unmount, reloaded when its src changes; React writes the muted
\* prop to the element when the prop's value changed between renders.
commitElement(prev, s) ==
  IF ~HasVideoRef(s)
  THEN [s EXCEPT !.elVolume = ElementDefaultVolume, !.elMuted = FALSE,
                 !.elPaused = TRUE, !.elTime = 0, !.elDuration = NaN,
                 !.vcPending = FALSE, !.tuPending = FALSE,
                 !.elStalled = FALSE, !.focus = "none",
                 !.fullscreen = FALSE, !.fsPending = "none"]
  ELSE IF ~HasVideoRef(prev)
  THEN [s EXCEPT !.elVolume = ElementDefaultVolume, !.elMuted = s.isMuted,
                 !.elPaused = TRUE, !.elTime = 0, !.elDuration = NaN,
                 !.vcPending = s.isMuted, !.tuPending = FALSE,
                 !.elStalled = FALSE]
  ELSE LET s1 == IF s.isMuted # prev.isMuted
                 THEN SetElMuted(s, s.isMuted) ELSE s
       IN  IF s.video # prev.video
           THEN [s1 EXCEPT !.elPaused = TRUE, !.elTime = 0,
                           !.elDuration = NaN, !.tuPending = FALSE,
                           !.elStalled = FALSE]
           ELSE s1

commitTracks_keepOld(prev, s) ==
  LET src == getSubtitleSrc(s.video, s.subtitleLanguage)
      old == IF HasVideoRef(prev) THEN s.textTracks ELSE <<>>
  IN  [s EXCEPT !.textTracks =
         IF ~HasVideoRef(s) \/ src = <<>> THEN <<>>
         ELSE IF \E i \in DOMAIN old : old[i].src = src THEN old
         ELSE <<NewTrack(src)>> \o old]
\* The <track> children of the element after the commit: one, keyed by its
\* caption file, while a language is selected.  A track whose key is not
\* rendered any more is removed, a new key gets a new track.
commitTracks(prev, s) ==
  LET src == getSubtitleSrc(s.video, s.subtitleLanguage)
      old == IF HasVideoRef(prev) THEN s.textTracks ELSE <<>>
      kept == SelectSeq(old, LAMBDA tr : tr.src = src)
  IN  [s EXCEPT !.textTracks =
         IF ~HasVideoRef(s) \/ src = <<>> THEN <<>>
         ELSE IF kept # <<>> THEN kept
         ELSE <<NewTrack(src)>>]

\* useEffect(..., [video, isOpen]): reset state when video changes
resetEffect(prev, s) ==
  IF (s.video # prev.video \/ s.isOpen # prev.isOpen)
       /\ s.isOpen /\ s.video # NoVideo
  THEN [s EXCEPT !.isPlaying = FALSE, !.currentTime = 0, !.isLoading = TRUE,
                 !.subtitleLanguage = Off, !.showSubtitleMenu = FALSE]
  ELSE s

subtitleEffect_noDeps(prev, s) ==
  IF ~HasVideoRef(s) \/ s.textTracks = <<>> THEN s
  ELSE IF s.subtitleLanguage = Off
  THEN [s EXCEPT !.textTracks[1].mode = "hidden"]
  ELSE LET s1 == [s EXCEPT !.textTracks[1].mode = "showing"]
           s2 == handleCueChange(s1, s.showControls)
       IN  [s2 EXCEPT !.textTracks[1].listeners =
                         Append(@, s.showControls)]
\* useEffect(..., [subtitleLanguage, showControls]): the cleanup of the
\* previous run removes the listener that run added, then the first track
\* gets its mode, its cues are positioned and a cuechange listener is added.
subtitleEffect(prev, s) ==
  IF s.subtitleLanguage = prev.subtitleLanguage
       /\ s.showControls = prev.showControls THEN s
  ELSE LET c == IF s.textTracks # <<>> /\ s.textTracks[1].listeners # <<>>
                THEN [s EXCEPT !.textTracks[1].listeners = Tail(@)] ELSE s
       IN  IF ~HasVideoRef(c) \/ c.textTracks = <<>> THEN c
           ELSE IF c.subtitleLanguage = Off
           THEN [c EXCEPT !.textTracks[1].mode = "hidden"]
           ELSE LET s1 == [c EXCEPT !.textTracks[1].mode = "showing"]
                    s2 == handleCueChange(s1, c.showControls)
                IN  [s2 EXCEPT !.textTracks[1].listeners =
                                  Append(@, c.showControls)]

dragEffect_noCleanup(prev, s) ==
  IF s.isDraggingVolume = prev.isDraggingVolume THEN s
  ELSE IF s.isDraggingVolume THEN [s EXCEPT !.dragListeners = @ + 1]
  ELSE s
\* useEffect(..., [isDraggingVolume]): the cleanup of a run that added the
\* pair of document listeners removes it; a run with isDraggingVolume true
\* adds a pair.  dragListeners counts the pairs registered.
dragEffect(prev, s) ==
  IF s.isDraggingVolume = prev.isDraggingVolume THEN s
  ELSE LET c == IF prev.isDraggingVolume /\ s.dragListeners > 0
                THEN [s EXCEPT !.dragListeners = @ - 1] ELSE s
       IN  IF c.isDraggingVolume THEN [c EXCEPT !.dragListeners = @ + 1]
           ELSE c

\* useEffect(..., [showControls, isOpen]): reposition the cues
repositionEffect(prev, s) ==
  IF s.showControls = prev.showControls /\ s.isOpen = prev.isOpen THEN s
  ELSE IF ~s.isOpen THEN s
  ELSE adjustSubtitlePosition(s, IF s.showControls
                                 THEN LineAboveControls ELSE LineLow)

\* useEffect(..., [isOpen, isPlaying]): the listener is replaced, and its
\* closure renewed, only when isOpen or isPlaying changed.
keyboardEffect(prev, s) ==
  IF s.isOpen # prev.isOpen \/ s.isPlaying # prev.isPlaying
  THEN [s EXCEPT !.kb = IF s.isOpen
                        THEN [attached |-> TRUE, isMuted |-> s.isMuted,
                              volumeIsZero |-> (s.volume = 0)]
                        ELSE KbDetached]
  ELSE s

timerEffect_noStart(prev, s) ==
  IF s.isOpen = prev.isOpen THEN s
  ELSE LET c == IF prev.isOpen /\ s.hideTimerRef # NoTimer
                THEN clearTimeout(s, s.hideTimerRef) ELSE s
       IN  IF c.isOpen THEN [c EXCEPT !.showControls = TRUE] ELSE c
\* useEffect(..., [isOpen]): cleanup of the previous run, then start on open
timerEffect(prev, s) ==
  IF s.isOpen = prev.isOpen THEN s
  ELSE LET c == IF prev.isOpen /\ s.hideTimerRef # NoTimer
                THEN clearTimeout(s, s.hideTimerRef) ELSE s
       IN  IF c.isOpen
           THEN resetHideTimer([c EXCEPT !.showControls = TRUE]) ELSE c

\* The re-render after a handler and the effects it runs.  The state
\* updates effects make (reset effect, timer effect) are rendered in a
\* second pass at once; the text tracks and the effects that work on them
\* are those of that final render.
render(prev, s) ==
  LET s1 == commitElement(prev, s)
      s2 == resetEffect(prev, s1)
      s3 == keyboardEffect(prev, s2)
      s4 == timerEffect(prev, s3)
      s5 == commitTracks(prev, s4)
      s6 == subtitleEffect(prev, s5)
      s7 == dragEffect(prev, s6)
  IN  repositionEffect(prev, s7)

\* ------------------------------------------------------------ history
\* run: the latest user operation and its argument; for the operations
\* of Counted, how many times in a row it was made (up to MaxRun); for the
\* volume operations, the level and mute flag before it (before the first
\* of the row, when counted).  The argument of pointerMove is 1 when the
\* controls were hidden at that moment.
\* For selectLanguage, prevLang is the language selected before it; for a
\* key press, ops lists the controller operations its handlers called;
\* threw tells that the operation ended in an uncaught error.
\* idle: time since the latest activity or open.  hides: hide callbacks run
\* since then.  scen: progress along one of these scenarios,
\*   1..4   open at 0.7 unmuted, drag to 0, release, press m;
\*   11..14 ArrowDown pressed 1..4 times in a row, the first at level 0.7;
\*   41..43 closed during a volume drag, reopened, document pointer move;
\*   50 + v closed on video v while the cues of its track were loading,
\*   60     then opened on another video;
\*   71..72 the ended signal, then ArrowRight.
Counted == {"toggleMute", "pointerMove", "x"}
IsVolumeOp(op) ==
  op \in {"mousedown", "drag", "toggleMute", "ArrowUp", "ArrowDown"}

RanFull(op, arg, lang, ops, threw) ==
  run' = IF op \in Counted /\ run.op = op /\ run.n < MaxRun
         THEN [run EXCEPT !.n = @ + 1, !.arg = arg, !.prevLang = lang,
                          !.ops = ops, !.threw = threw]
         ELSE [op |-> op, arg |-> arg, n |-> 1,
               lvl |-> IF IsVolumeOp(op) THEN volume ELSE 0,
               muted |-> IF IsVolumeOp(op) THEN isMuted ELSE FALSE,
               prevLang |-> lang, ops |-> ops, threw |-> threw]

RanWith(op, arg, lang, ops) == RanFull(op, arg, lang, ops, FALSE)

Ran(op, arg) == RanWith(op, arg, Off, <<>>)

\* The label of an operation that needs the element.
OnElement(op) == IF HasVideoRef(Cur) THEN op ELSE "ignored"

Activity == idle' = 0 /\ hides' = 0
NoActivity == UNCHANGED <<idle, hides>>

IdleCap == HideDelayMs + TickMs

Do(s) == Commit(render(Cur, s))

\* ------------------------------------------------------------ Init
Init ==
  /\ isOpen = FALSE /\ video = NoVideo
  /\ isPlaying = FALSE /\ currentTime = 0 /\ duration = 0
  /\ volume = InitVolume /\ isMuted = FALSE /\ isLoading = TRUE
  /\ isDraggingVolume = FALSE /\ showControls = TRUE
  /\ hideTimerRef = NoTimer
  /\ elVolume = ElementDefaultVolume /\ elMuted = FALSE /\ elPaused = TRUE
  /\ elTime = 0 /\ elDuration = NaN
  /\ vcPending = FALSE /\ tuPending = FALSE
  /\ timers = {} /\ kb = KbDetached
  /\ subtitleLanguage = Off /\ showSubtitleMenu = FALSE /\ textTracks = <<>>
  /\ dragListeners = 0 /\ focus = "none" /\ elStalled = FALSE
  /\ fullscreen = FALSE /\ fsPending = "none"
  /\ isOverlayOpen = FALSE /\ openTimers = 0
  /\ run = [op |-> "init", arg |-> 0, n |-> 0, lvl |-> 0, muted |-> FALSE,
            prevLang |-> Off, ops |-> <<>>, threw |-> FALSE]
  /\ idle = 0 /\ hides = 0 /\ scen = 0

\* ------------------------------------------------------------ host actions
HostOpen(v) ==
  /\ ~isOpen
  /\ Do([Cur EXCEPT !.isOpen = TRUE, !.video = v])
  /\ Ran("open", v) /\ Activity
  /\ scen' = IF scen = 41 THEN 42
             ELSE IF scen > 50 /\ scen < 60 /\ v \notin {NoVideo, scen - 50}
             THEN 60
             ELSE IF v # NoVideo /\ volume = InitVolume /\ ~isMuted
                     /\ ~isDraggingVolume THEN 1 ELSE 0

\* close button, backdrop click
HostClose ==
  /\ isOpen
  /\ Do(onClose(Cur))
  /\ Ran("close", 0) /\ NoActivity
  /\ scen' = IF isDraggingVolume THEN 41
             ELSE IF textTracks # <<>> /\ ~textTracks[1].cues
             THEN 50 + video ELSE 0

HostChangeVideo(v) ==
  /\ isOpen /\ v # video
  /\ Do([Cur EXCEPT !.video = v])
  /\ Ran("changeVideo", v) /\ NoActivity /\ scen' = 0

\* The host screen in detail.  A card or the hero opens the overlay on a
\* video; the overlay and the hero (which shows the first video) start the
\* player.
FeaturedVideo == 1

HostVideoClick(v) ==
  /\ Do(handleVideoClick(Cur, v))
  /\ Ran("videoClick", v) /\ NoActivity /\ scen' = 0

HostCloseOverlay ==
  /\ isOverlayOpen
  /\ Do(handleCloseOverlay(Cur))
  /\ Ran("closeOverlay", 0) /\ NoActivity /\ scen' = 0

HostPlay(v) ==
  /\ (isOverlayOpen /\ v = video) \/ v = FeaturedVideo
  /\ openTimers < MaxOpenTimers
  /\ Do(handlePlay(Cur, v))
  /\ Ran("play", v) /\ NoActivity /\ scen' = 0

OpenTimerFire ==
  /\ openTimers > 0
  /\ Do(openTimerCallback(Cur))
  /\ Ran("open", video) /\ Activity /\ scen' = 0

\* ------------------------------------------------------------ pointer
VolumeMouseDown(x) ==
  /\ HasVideoRef(Cur)
  /\ Do(volumeTrackMouseDown(Cur, x))
  /\ Ran("mousedown", x) /\ NoActivity
  /\ scen' = IF scen = 1 /\ trackPos(x) = 0 THEN 2 ELSE 0

DragScen(x) ==
  scen' = CASE scen \in 41..43 -> 43
            [] scen = 2 /\ trackPos(x) = 0 -> 2
            [] OTHER -> 0

DocMouseMove(x) ==
  /\ dragListeners > 0
  /\ Do(dragMouseMove(Cur, x))
  /\ Ran(OnElement("drag"), x) /\ NoActivity
  /\ DragScen(x)

\* The same handler, with the volumechange signal it leaves queued handled
\* before its state updates are rendered: onVolumeChange reads the muted
\* flag of the element before React has written the new muted prop to it,
\* and its setIsMuted is the later update of the two.
DocMouseMoveThenSignal(x) ==
  /\ dragListeners > 0
  /\ dragMouseMove(Cur, x).vcPending
  /\ Do(onVolumeChange(dragMouseMove(Cur, x)))
  /\ Ran(OnElement("drag"), x) /\ NoActivity
  /\ DragScen(x)

DocMouseUp ==
  /\ dragListeners > 0
  /\ Do(handleMouseUp(Cur))
  /\ Ran("mouseup", 0) /\ NoActivity
  /\ scen' = IF scen = 2 THEN 3 ELSE 0

ClickMute ==
  /\ HasVideoRef(Cur)
  /\ Do(handleMuteToggle(Cur, RenderClosure(Cur)))
  /\ Ran("toggleMute", 0) /\ NoActivity /\ scen' = 0

ClickPlayPause ==
  /\ HasVideoRef(Cur)
  /\ Do(handlePlayPause(Cur))
  /\ Ran("playPause", 0) /\ NoActivity /\ scen' = 0

ClickStop ==
  /\ HasVideoRef(Cur)
  /\ Do(handleStop(Cur))
  /\ Ran("stop", 0) /\ NoActivity /\ scen' = 0

ClickProgress(pct) ==
  /\ HasVideoRef(Cur)
  /\ Do(handleProgressClick(Cur, pct))
  /\ RanFull("seekTo", pct, Off, <<>>, seekThrows(Cur))
  /\ NoActivity /\ scen' = 0

PointerMove ==
  /\ HasVideoRef(Cur)
  /\ Do(handleMouseMove(Cur))
  /\ Ran("pointerMove", IF showControls THEN 0 ELSE 1)
  /\ Activity /\ scen' = 0

\* ------------------------------------------------------------ keyboard
KeyLabel(key) ==
  CASE key = "m" -> OnElement("toggleMute")
    [] key \in {"ArrowUp", "ArrowDown", "ArrowLeft", "ArrowRight", " "}
         -> OnElement(key)
    [] OTHER -> key

KeyPress(key) ==
  /\ kb.attached
  /\ Do(handleKeyPress(focusedKeyDown(Cur, key), key))
  /\ RanFull(KeyLabel(key), 1, Off,
             focusedKeyOps(focus, key) \o windowKeyOps(key),
             key \in {"ArrowLeft", "ArrowRight"} /\ seekThrows(Cur))
  /\ Activity
  /\ scen' = CASE scen = 3 /\ key = "m" -> 4
               [] scen = 71 /\ key = "ArrowRight" -> 72
               [] key = "ArrowDown" /\ HasVideoRef(Cur) /\ scen \in 11..13
                    -> scen + 1
               [] key = "ArrowDown" /\ HasVideoRef(Cur) /\ volume = InitVolume
                    -> 11
               [] OTHER -> 0

\* Tab navigation moves the keyboard focus to a control of the player.
FocusControl(c) ==
  /\ HasVideoRef(Cur) /\ c # focus
  /\ Do([Cur EXCEPT !.focus = c])
  /\ UNCHANGED hvars

\* ------------------------------------------------------------ fullscreen
\* The answer of the platform is noted in the argument of the toggle that
\* asked: 2 granted, 3 denied.
Answered(a) ==
  /\ run' = IF run.op \in {"fullscreen", "f"} THEN [run EXCEPT !.arg = a]
            ELSE run
  /\ UNCHANGED <<idle, hides, scen>>

ClickFullscreen ==
  /\ HasVideoRef(Cur)
  /\ Do(handleFullscreen(Cur))
  /\ Ran("fullscreen", 0) /\ NoActivity /\ scen' = 0

FullscreenGranted ==
  /\ fsPending # "none"
  /\ Do(onFullscreenGranted(Cur))
  /\ Answered(2)

FullscreenDenied ==
  /\ fsPending # "none"
  /\ Do(onFullscreenDenied(Cur))
  /\ Answered(3)

\* The user leaves fullscreen by a means of the platform.
PlatformExitFullscreen ==
  /\ fullscreen
  /\ Do([Cur EXCEPT !.fullscreen = FALSE])
  /\ UNCHANGED hvars

\* ------------------------------------------------------------ subtitle menu
ToggleSubtitleMenu ==
  /\ HasVideoRef(Cur)
  /\ Do([Cur EXCEPT !.showSubtitleMenu = ~showSubtitleMenu])
  /\ UNCHANGED hvars

\* onClick of a menu option
SelectLanguage(lang) ==
  /\ HasVideoRef(Cur) /\ showSubtitleMenu
  /\ Do([Cur EXCEPT !.subtitleLanguage = lang, !.showSubtitleMenu = FALSE])
  /\ RanWith("selectLanguage", lang, subtitleLanguage, <<>>)
  /\ NoActivity /\ scen' = IF scen = 60 THEN 60 ELSE 0

\* ------------------------------------------------------------ media signals
\* The caption file of a track that is not disabled has loaded.
CuesLoaded ==
  /\ HasVideoRef(Cur) /\ textTracks # <<>>
  /\ textTracks[1].mode # "disabled" /\ ~textTracks[1].cues
  /\ Do([Cur EXCEPT !.textTracks[1].cues = TRUE])
  /\ UNCHANGED hvars

RECURSIVE runCueListeners(_, _)
runCueListeners(s, ls) ==
  IF ls = <<>> THEN s
  ELSE runCueListeners(handleCueChange(s, Head(ls)), Tail(ls))

\* The set of active cues of the first track changes.
CueChangeSignal ==
  /\ HasVideoRef(Cur) /\ textTracks # <<>>
  /\ textTracks[1].mode # "disabled" /\ textTracks[1].cues
  /\ textTracks[1].listeners # <<>>
  /\ Do(runCueListeners(Cur, textTracks[1].listeners))
  /\ UNCHANGED hvars

\* Playback stops for lack of data (waiting), data arrives (canplay).
MediaWaiting ==
  /\ HasVideoRef(Cur) /\ ~elPaused /\ elDuration # NaN /\ ~elStalled
  /\ Do([Cur EXCEPT !.elStalled = TRUE, !.isLoading = TRUE])
  /\ UNCHANGED hvars

MediaCanPlay ==
  /\ HasVideoRef(Cur) /\ elStalled
  /\ Do([Cur EXCEPT !.elStalled = FALSE, !.isLoading = FALSE])
  /\ UNCHANGED hvars

MetadataReady ==
  /\ HasVideoRef(Cur) /\ elDuration = NaN
  /\ Do(onLoadedMetadata(Cur, DurationOf(video)))
  /\ UNCHANGED hvars

VolumeChangeSignal ==
  /\ HasVideoRef(Cur) /\ vcPending
  /\ Do(onVolumeChange(Cur))
  /\ UNCHANGED hvars

TimeUpdateSignal ==
  /\ HasVideoRef(Cur) /\ tuPending
  /\ Do(onTimeUpdate(Cur))
  /\ UNCHANGED hvars

\* playback progresses by PlayStep seconds
PlayAdvance ==
  /\ HasVideoRef(Cur) /\ ~elPaused /\ elDuration # NaN /\ elTime < elDuration
  /\ ~elStalled
  /\ Do([Cur EXCEPT !.elTime = IF elTime + PlayStep > elDuration
                               THEN elDuration ELSE elTime + PlayStep,
                    !.tuPending = TRUE])
  /\ UNCHANGED hvars

MediaEnded ==
  /\ HasVideoRef(Cur) /\ ~elPaused /\ elDuration # NaN /\ elTime = elDuration
  /\ Do(onEnded(Cur))
  /\ scen' = 71 /\ UNCHANGED <<run, idle, hides>>

\* ------------------------------------------------------------ time
\* TickMs elapse.  A timeout that is due runs before more time passes.
Tick ==
  /\ isOpen \/ timers # {}
  /\ \A t \in timers : t.left > 0
  /\ Do([Cur EXCEPT !.timers = {[t EXCEPT !.left = @ - TickMs] : t \in timers}])
  /\ idle' = IF idle + TickMs > IdleCap THEN IdleCap ELSE idle + TickMs
  /\ UNCHANGED <<run, hides, scen>>

HideFire ==
  /\ \E t \in timers :
       /\ t.left <= 0
       /\ Do(hideCallback(Cur, t.id))
  /\ hides' = IF hides < 2 THEN hides + 1 ELSE hides
  /\ UNCHANGED <<run, idle, scen>>

\* ------------------------------------------------------------ specifications
HostNext ==
  \/ \E v \in Videos \cup {NoVideo} : HostOpen(v)
  \/ HostClose
  \/ \E v \in Videos : HostChangeVideo(v)

\* The volume controller and everything that reaches it.
VolumeNext ==
  \/ \E v \in {1, NoVideo} : HostOpen(v)
  \/ HostClose
  \/ HostChangeVideo(1)
  \/ \E x \in PointerXs : VolumeMouseDown(x)
  \/ \E x \in PointerXs : DocMouseMove(x)
  \/ \E x \in PointerXs : DocMouseMoveThenSignal(x)
  \/ DocMouseUp
  \/ ClickMute
  \/ ClickPlayPause
  \/ \E key \in {" ", "ArrowUp", "ArrowDown", "m"} : KeyPress(key)
  \/ MetadataReady
  \/ VolumeChangeSignal

\* The playback controller and everything that reaches it.
SubtitleNext ==
  \/ \E v \in Videos : HostOpen(v)
  \/ HostClose
  \/ \E v \in Videos : HostChangeVideo(v)
  \/ ToggleSubtitleMenu
  \/ \E lang \in Languages \cup {Off} : SelectLanguage(lang)
  \/ PointerMove
  \/ MetadataReady
  \/ CuesLoaded
  \/ CueChangeSignal
  \/ Tick
  \/ HideFire

\* The host screen with its own handlers in place of HostOpen.
HostScreenNext ==
  \/ \E v \in Videos : HostVideoClick(v)
  \/ HostCloseOverlay
  \/ \E v \in Videos : HostPlay(v)
  \/ OpenTimerFire
  \/ HostClose
  \/ MetadataReady
  \/ ClickPlayPause

FullscreenNext ==
  \/ HostOpen(1)
  \/ HostClose
  \/ ClickFullscreen
  \/ KeyPress("f")
  \/ FullscreenGranted
  \/ FullscreenDenied
  \/ PlatformExitFullscreen
  \/ ClickPlayPause
  \/ MetadataReady
  \/ PointerMove
  \/ Tick
  \/ HideFire

\* The keyboard and the controls that take the keyboard focus.
InputNext ==
  \/ HostOpen(1)
  \/ HostClose
  \/ \E c \in {"none", "progress", "volume"} : FocusControl(c)
  \/ \E key \in Keys : KeyPress(key)
  \/ MetadataReady

PlaybackNext ==
  \/ HostNext
  \/ MediaWaiting
  \/ MediaCanPlay
  \/ ClickPlayPause
  \/ ClickStop
  \/ \E pct \in ProgressPcts : ClickProgress(pct)
  \/ \E key \in {" ", "ArrowLeft", "ArrowRight"} : KeyPress(key)
  \/ MetadataReady
  \/ TimeUpdateSignal
  \/ PlayAdvance
  \/ MediaEnded

\* The controls visibility timer and everything that reaches it.  Every key
\* runs the same two first statements of handleKeyPress; of the mapped
\* operations only Escape (close) touches the timer.
VisibilityNext ==
  \/ HostNext
  \/ PointerMove
  \/ \E key \in {"x", "Escape"} : KeyPress(key)
  \/ Tick
  \/ HideFire

Next ==
  \/ HostNext
  \/ \E x \in PointerXs : VolumeMouseDown(x)
  \/ \E x \in PointerXs : DocMouseMove(x)
  \/ \E x \in PointerXs : DocMouseMoveThenSignal(x)
  \/ DocMouseUp
  \/ ClickMute
  \/ ClickPlayPause
  \/ ClickStop
  \/ \E pct \in ProgressPcts : ClickProgress(pct)
  \/ PointerMove
  \/ \E key \in Keys : KeyPress(key)
  \/ \E c \in {"none", "progress", "volume"} : FocusControl(c)
  \/ ClickFullscreen
  \/ FullscreenGranted
  \/ FullscreenDenied
  \/ PlatformExitFullscreen
  \/ ToggleSubtitleMenu
  \/ \E lang \in Languages \cup {Off} : SelectLanguage(lang)
  \/ MetadataReady
  \/ VolumeChangeSignal
  \/ TimeUpdateSignal
  \/ CuesLoaded
  \/ CueChangeSignal
  \/ MediaWaiting
  \/ MediaCanPlay
  \/ PlayAdvance
  \/ MediaEnded
  \/ Tick
  \/ HideFire

Spec == Init /\ [][Next]_vars
VolumeSpec == Init /\ [][VolumeNext]_vars
PlaybackSpec == Init /\ [][PlaybackNext]_vars
VisibilitySpec == Init /\ [][VisibilityNext]_vars
SubtitleSpec == Init /\ [][SubtitleNext]_vars
InputSpec == Init /\ [][InputNext]_vars
FullscreenSpec == Init /\ [][FullscreenNext]_vars
HostScreenSpec == Init /\ [][HostScreenNext]_vars

\* ------------------------------------------------------------ claims
IsDragOp == run.op \in {"mousedown", "drag"}
IsAdjustOp == run.op \in {"ArrowUp", "ArrowDown"}

\* C1: the volume level, and the element's volume, are within [0,1] in every
\* reachable state; after a drag set left of the track the level is 0, after
\* one right of the track it is 1.
VolumeLevelInRange ==
  /\ volume \in 0..MaxLevel
  /\ elVolume \in 0..MaxLevel
  /\ (IsDragOp /\ run.arg < TrackLeft => volume = 0)
  /\ (IsDragOp /\ run.arg > TrackLeft + TrackWidth => volume = MaxLevel)

DragRightOfTrack ==
  run.op = "drag" /\ run.arg > TrackLeft + TrackWidth /\ volume = MaxLevel

ZeroLevelImpliesMuted == volume = 0 => isMuted

\* C4: two toggleMute in a row from an unmuted state with level L > 0 end
\* unmuted with level L; one toggleMute from the muted state with level 0
\* ends unmuted with level 0.5.
ToggleMuteRoundTrip ==
  /\ (run.op = "toggleMute" /\ run.n = 2 /\ ~run.muted /\ run.lvl > 0
        => ~isMuted /\ volume = run.lvl)
  /\ (run.op = "toggleMute" /\ run.n = 1 /\ run.muted /\ run.lvl = 0
        => ~isMuted /\ volume = UnmuteDefault)

\* C5: from the open state with level 0.7 unmuted, a drag of the volume
\* pointer to 0 leaves the player muted; after the release, the m key
\* leaves it unmuted with level 0.5.
DragToZeroThenM ==
  /\ (scen = 2 => isMuted)
  /\ (scen = 4 => ~isMuted /\ volume = UnmuteDefault)

\* C6: after adjustVolume(delta) on an open player the level is
\* clamp(level + delta, 0, 1) for the level before it; after four ArrowDown
\* in a row from level 0.7 the level is 0.5 and the player is not muted.
AdjustVolumeFromLevel ==
  /\ (run.op = "ArrowUp" => volume = clamp01(run.lvl + VolumeStep))
  /\ (run.op = "ArrowDown" => volume = clamp01(run.lvl - VolumeStep))
  /\ (scen = 14 => volume = UnmuteDefault /\ ~isMuted)

\* C7: in every reachable state 0 <= currentTime <= duration, and the
\* element's position is within its duration once that is known.
TimeInRange ==
  /\ 0 <= currentTime /\ currentTime <= duration
  /\ (elDuration # NaN => 0 <= elTime /\ elTime <= elDuration)

SeekForwardReachedEnd ==
  /\ run.op = "ArrowRight" /\ duration = DurationOf(1)
  /\ elTime = elDuration /\ currentTime = duration

\* C8: at most one hide callback is pending at any time.
AtMostOneHideTimer == Cardinality(timers) <= 1

RescheduledWhilePending ==
  run.op = "pointerMove" /\ run.n >= 2 /\ idle = 0 /\ Cardinality(timers) = 1

\* C9: the controls flip from visible to hidden only when HideDelayMs have
\* passed since the latest activity (or the open), and at most one hide
\* callback runs after an activity.
HideOnlyAfterDelay ==
  /\ [](hides <= 1)
  /\ [][(showControls /\ ~showControls') =>
          (idle >= HideDelayMs /\ hides = 0)]_vars

HiddenAfterRepeatedActivity ==
  /\ isOpen /\ ~showControls /\ hides = 1
  /\ run.op = "pointerMove" /\ run.n >= 2

\* C10: once more than HideDelayMs have passed on an open player without
\* input the controls are hidden; a pointer move over the player shows them
\* in the same step and leaves exactly one hide callback pending, due
\* HideDelayMs later.
ControlsHideAfterIdle ==
  /\ [](isOpen /\ idle > HideDelayMs => ~showControls)
  /\ [][PointerMove =>
          /\ showControls'
          /\ timers' = {[id |-> hideTimerRef', left |-> HideDelayMs]}]_vars

ShownAgainAfterHide ==
  /\ run.op = "pointerMove" /\ run.arg = 1 /\ showControls
  /\ timers = {[id |-> hideTimerRef, left |-> HideDelayMs]}

\* C11: in every reachable state at most one text track of the element is
\* showing.
ShowingTracks == {i \in DOMAIN textTracks : textTracks[i].mode = "showing"}

AtMostOneTrackShowing == Cardinality(ShowingTracks) <= 1

SwitchedLanguage ==
  /\ run.op = "selectLanguage" /\ run.arg = "en" /\ run.prevLang = "es"
  /\ ShowingTracks = {1} /\ textTracks[1].src[2] = "en"

\* C12: from a selectLanguage(lang) until the next user operation, whatever
\* signals arrive, exactly the track of lang is showing; after
\* selectLanguage('off') no track is showing.
SelectedTrackShowing ==
  run.op = "selectLanguage" =>
     IF run.arg = Off THEN ShowingTracks = {}
     ELSE ShowingTracks = {1} /\ textTracks[1].src[2] = run.arg

\* C13: a selectLanguage(lang) made while lang is the selected language
\* leaves the selected language and the text tracks (the track, its mode and
\* its cuechange listeners) as they are.
SelectSameLanguageIdempotent ==
  [][(\E lang \in Languages \cup {Off} :
        SelectLanguage(lang) /\ subtitleLanguage = lang)
       => UNCHANGED <<subtitleLanguage, textTracks>>]_vars

SelectedSameLanguageAgain ==
  /\ run.op = "selectLanguage" /\ run.arg = "en" /\ run.prevLang = "en"
  /\ ShowingTracks = {1} /\ textTracks[1].src[2] = "en"
  /\ Len(textTracks[1].listeners) = 1

\* C14: whenever the cues of the first text track have been positioned,
\* their line is -5 if the controls are visible and -2 if they are hidden.
CueLineFollowsControls ==
  (HasVideoRef(Cur) /\ textTracks # <<>>
     /\ textTracks[1].line # AutoLine) =>
       textTracks[1].line = IF showControls THEN LineAboveControls
                            ELSE LineLow

\* C15: while the player is closed no window keydown listener, no document
\* drag listener and no pending hide callback of the player exists.
ClosedReleasesEverything ==
  ~isOpen => (~kb.attached /\ dragListeners = 0 /\ timers = {})

\* C16: after a close during a volume drag, a document pointer move that
\* reaches the drag handler leaves the level and the muted flag as they
\* were, also after the player was opened again.
MoveAfterCloseChangesNothing ==
  (scen = 43 /\ run.op = "drag") =>
     (volume = run.lvl /\ isMuted = run.muted)

\* C17: while video is null or isOpen is false the player has no pending hide
\* callback, no window keydown listener and no document drag listener.
HoldsNothingWithoutVideo ==
  (video = NoVideo \/ ~isOpen) =>
     (timers = {} /\ ~kb.attached /\ dragListeners = 0)

\* C18: from an open for a video until the first user operation the state
\* has its initial values: level 0.7, unmuted, no drag, controls visible,
\* language off, not playing, time 0.
OpenStartsFresh ==
  (run.op = "open" /\ run.arg # NoVideo) =>
     /\ volume = InitVolume /\ ~isMuted /\ ~isDraggingVolume
     /\ showControls /\ subtitleLanguage = Off
     /\ ~isPlaying /\ currentTime = 0

\* C19: a key press on the open player calls exactly the one operation the
\* keyboard map gives for the key, whichever control has the focus.
KeyLabels ==
  {" ", "Escape", "ArrowLeft", "ArrowRight", "ArrowUp", "ArrowDown", "f",
   "toggleMute"}

MappedOperation(label) ==
  CASE label = " " -> "togglePlayPause"
    [] label = "Escape" -> "close"
    [] label = "ArrowLeft" -> "seekBack"
    [] label = "ArrowRight" -> "seekForward"
    [] label = "ArrowUp" -> "volumeUp"
    [] label = "ArrowDown" -> "volumeDown"
    [] label = "f" -> "fullscreen"
    [] OTHER -> "toggleMute"

KeyDispatchesMappedOnce ==
  (run.op \in KeyLabels /\ run.arg = 1) =>
     run.ops = <<MappedOperation(run.op)>>

\* C20: while the element waits for data (from the waiting signal to the
\* canplay signal) isPlaying is false.
NotPlayingWhileBuffering == elStalled => ~isPlaying

\* C21: a denied fullscreen request changes nothing but the request: the
\* platform's fullscreen state, the open flag and the playback, volume,
\* subtitle and visibility state stay as they are; a toggle asks to exit
\* exactly when the platform is in fullscreen at that moment.
FullscreenDenialIsNoOp ==
  /\ [][FullscreenDenied =>
          /\ fullscreen' = fullscreen /\ isOpen' = isOpen
          /\ UNCHANGED <<video, isPlaying, currentTime, duration, isLoading,
                         volume, isMuted, isDraggingVolume,
                         subtitleLanguage, showSubtitleMenu, textTracks,
                         showControls, hideTimerRef, timers>>]_vars
  /\ [][ClickFullscreen =>
          fsPending' = IF fullscreen THEN "exit" ELSE "enter"]_vars

DeniedWhilePlaying ==
  /\ run.op = "fullscreen" /\ run.arg = 3 /\ fsPending = "none"
  /\ ~fullscreen /\ isOpen /\ isPlaying

\* C22: once the cues of the showing track have loaded they are on the
\* line for the current visibility of the controls.
CurrentOffset == IF showControls THEN LineAboveControls ELSE LineLow

LoadedCuesCarryOffset ==
  (HasVideoRef(Cur) /\ textTracks # <<>> /\ textTracks[1].mode = "showing"
     /\ textTracks[1].cues) => textTracks[1].line = CurrentOffset

\* C23: in a session opened on another video after a close during the
\* loading of cues, the cues of the session's track are on the line for the
\* current visibility once they have loaded.
ReopenedCuesCarryOffset ==
  (scen = 60 /\ HasVideoRef(Cur) /\ textTracks # <<>>
     /\ textTracks[1].cues) => textTracks[1].line = CurrentOffset

\* C24: at most one pair of document drag listeners is registered at any
\* time and only during a drag; a mousedown on the track leaves exactly one
\* pair, a release anywhere in the document leaves none.
DragSessionExclusive ==
  /\ dragListeners <= 1
  /\ (dragListeners = 1 <=> isDraggingVolume)
  /\ (run.op = "mousedown" => dragListeners = 1)
  /\ (run.op \in {"init", "mouseup"} => dragListeners = 0)

ReleasedOutsideTrack ==
  /\ run.op = "mouseup" /\ dragListeners = 0 /\ ~isDraggingVolume
  /\ volume = MaxLevel /\ HasVideoRef(Cur)

\* C25: after the ended signal isPlaying is false and currentTime is 0; an
\* ArrowRight (seekBy(10)) that follows leaves the element at
\* min(10, duration).
EndedThenSeekFromZero ==
  /\ (scen = 71 => ~isPlaying /\ currentTime = 0)
  /\ (scen = 72 =>
        elTime = IF SeekSeconds < elDuration THEN SeekSeconds ELSE elDuration)

\* C26: seekBy and seekTo raise no error, also while the duration of the
\* media is not known.
SeekLabels == {"ArrowLeft", "ArrowRight", "seekTo"}

SeekRaisesNoError == run.op \in SeekLabels => ~run.threw

\* C27: from an open for a video, or a change of the video while open, until
\* the metadata of that video arrives or the user does something, the
\* playback and subtitle state have their initial values.
OpenResetsPlaybackState ==
  (run.op \in {"open", "changeVideo"} /\ HasVideoRef(Cur)
     /\ elDuration = NaN) =>
       /\ ~isPlaying /\ currentTime = 0 /\ duration = 0 /\ isLoading
       /\ subtitleLanguage = Off /\ ~showSubtitleMenu

\* C28: a press of the m key on a muted player leaves it unmuted.
KeyMUnmutes ==
  (run.op = "toggleMute" /\ run.arg = 1 /\ run.n = 1 /\ run.muted)
     => ~isMuted

\* C29: in the host screen the player is never open while no video is
\* selected.
PlayerOpenHasVideo == isOpen => video # NoVideo

\* C30: whenever no time-advanced signal is pending, the tracked currentTime
\* equals the position of the mounted media element.
TrackedTimeAgrees ==
  (HasVideoRef(Cur) /\ ~tuPending) => currentTime = elTime

====
